---- MODULE Spec2Model ----
(***************************************************************************)
(* Model of the planning-document scraper: scrape.mjs (start-up, the       *)
(* disclaimer/postback negotiation, the three-stage document resolver, the *)
(* persistence step, the batch loop) and s3-uploader.mjs (the S3Uploader   *)
(* singleton and its statistics).                                          *)
(*                                                                         *)
(* Strings whose content the code inspects (payload bytes, href            *)
(* parameters, titles, file names, link attributes) are sequences of       *)
(* one-character strings.  An await is a point where the run is           *)
(* suspended: each action is the synchronous code between two awaits.      *)
(***************************************************************************)
EXTENDS Integers, Sequences, FiniteSets, TLC

VARIABLES
    env,            \* process.env: S3_ENABLED and KEEP_LOCAL_FILES
    hasBucket,      \* process.env.S3_BUCKET is set
    storageMode,    \* the --storage= argument (a valid mode)
    dirExists,      \* downloads_<id> exists now
    enabled,        \* s3Uploader.enabled
    keepLocalFiles, \* s3Uploader.keepLocalFiles
    stats,          \* s3Uploader.stats
    pc,             \* where the run is suspended
    formAction,     \* action attribute of the disclaimer form
    negStatus,      \* how the negotiation went
    sent,           \* negotiation requests sent so far, in order
    rows,           \* the tr elements of a listing (ParseSpec only)
    links,          \* the links array
    idx,            \* i of the loop of downloadAllDocuments
    successCount,
    failCount,
    started,        \* per reference: how often downloadFile was called on it
    doc,            \* the latest call of downloadFile: what happened in it
    resolvedCount,  \* calls of downloadFile that reached line 281
    localFiles,     \* files written to downloads_<id> by this run
    pauses,         \* politeness delays that have elapsed
    summary,        \* the download summary that was printed
    upl,            \* what the upload backend did: completed, threw, bytes
    inFlight        \* the requests sent and not yet settled, oldest first

vars == <<env, hasBucket, storageMode, dirExists, enabled,
          keepLocalFiles, stats, pc, formAction, negStatus, sent, rows,
          links, idx, successCount, failCount, started, doc, resolvedCount,
          localFiles, pauses, summary, upl, inFlight>>

----------------------------------------------------------------------------
(* Bounds *)

MaxRows == 2        \* table rows of a listing given to the parser alone
MaxBatchRows == 2   \* table rows of the listing of a full run
MaxLinksPerRow == 2 \* view-files links inside one row
MaxTitleLen == 2    \* characters of a short title, and of the tail of a long one
MaxParts == 2       \* requests of one upload that are in flight together

----------------------------------------------------------------------------
(* Strings *)

Min(a, b) == IF a < b THEN a ELSE b

\* Buffer.slice(0, n) / String.substring(0, n)
Slice(s, n) == SubSeq(s, 1, Min(n, Len(s)))

\* String.prototype.startsWith
StartsWith(s, p) == Len(p) <= Len(s) /\ SubSeq(s, 1, Len(p)) = p

\* String.prototype.includes
Includes(s, p) ==
    \E k \in 0..(Len(s) - Len(p)) : SubSeq(s, k + 1, k + Len(p)) = p

DOCTYPE == <<"<", "!", "D", "O", "C", "T", "Y", "P", "E">>
HTMLTAG == <<"<", "h", "t", "m", "l">>
PDFSIG  == <<"%", "P", "D", "F", "-">>

\* Payloads the portal may answer the stage-3 fetch with
PayloadPdf      == PDFSIG \o <<"1", ".", "4", "n", "%", "x", "y", "z", "n", "1">>
PayloadDoctype  == DOCTYPE \o <<" ", "h", "t", "m", "l", ">">>
PayloadHtmlTag  == HTMLTAG \o <<">", "<", "b", "o", "d", "y", ">">>
PayloadDoctypeLower ==
    <<"<", "!", "d", "o", "c", "t", "y", "p", "e", " ", "h", "t", "m", "l", ">">>
PayloadZip      == <<"P", "K", "3", "4", "x", "y">>

Payloads == {PayloadPdf, PayloadDoctype, PayloadHtmlTag,
             PayloadDoctypeLower, PayloadZip}

\* content-type headers: of any response, and those drawn for the binary one
ContentTypes == {"application/pdf", "text/html", "undefined"}
FinalContentTypes == {"application/pdf", "text/html"}

----------------------------------------------------------------------------
(* s3-uploader.mjs *)

EnvValues == {"true", "false", "unset"}

\* constructor: this.enabled
UploaderEnabled(e) == e.S3_ENABLED = "true"

\* constructor: this.keepLocalFiles
UploaderKeepLocal(e) == e.KEEP_LOCAL_FILES # "false"

ZeroStats == [uploaded |-> 0, failed |-> 0, totalBytes |-> 0]

\* a slip: the bytes are added before the upload has settled
UploadStats_BytesBeforeDone(st, ok, len) ==
    IF ok THEN [st EXCEPT !.uploaded = @ + 1, !.totalBytes = @ + len]
          ELSE [st EXCEPT !.failed = @ + 1, !.totalBytes = @ + len]

\* upload(): the counters after upload.done() settled
UploadStats(st, ok, len) ==
    IF ok THEN [st EXCEPT !.uploaded = @ + 1, !.totalBytes = @ + len]
          ELSE [st EXCEPT !.failed = @ + 1]

----------------------------------------------------------------------------
(* scrape.mjs: start-up *)

Modes == {"local", "s3", "both"}

\* lines 66-73
OverrideEnv(mode) ==
    IF mode = "s3" \/ mode = "both"
    THEN [S3_ENABLED |-> "true",
          KEEP_LOCAL_FILES |-> IF mode = "both" THEN "true" ELSE "false"]
    ELSE [S3_ENABLED |-> "false", KEEP_LOCAL_FILES |-> "true"]

\* the timeout option of the requests, in ms (NoTimeout: none is given, and
\* the default of the client is not to time out)
HtmlTimeout == 30000
BinaryTimeout == 60000
NoTimeout == 0

\* The headers object of a request's options, as header name :> value.
\* The client of lines 14-20 is created without default headers.
BrowserUA == "Mozilla/5.0 (Windows NT 10.0; Win64; x64)"
NoHeaders == <<>>
\* lines 106-112
Stage1Headers ==
    ("User-Agent" :> BrowserUA) @@ ("Accept" :> "text/html")
      @@ ("Accept-Language" :> "en-US,en;q=0.5")
      @@ ("Accept-Encoding" :> "gzip, deflate, br")
      @@ ("Connection" :> "keep-alive")
\* lines 169-175
Stage2Headers ==
    ("User-Agent" :> BrowserUA) @@ ("Accept" :> "text/html")
      @@ ("Accept-Language" :> "en-US,en;q=0.5")
      @@ ("Referer" :> "url") @@ ("Connection" :> "keep-alive")
\* lines 251-258
Stage3Headers ==
    ("User-Agent" :> BrowserUA) @@ ("Accept" :> "application/pdf")
      @@ ("Accept-Language" :> "en-US,en;q=0.5")
      @@ ("Accept-Encoding" :> "identity")
      @@ ("Referer" :> "actualPdfUrl") @@ ("Connection" :> "keep-alive")
\* lines 424-426 and 448-450
FormHeaders == "Content-Type" :> "application/x-www-form-urlencoded"

Req(what, timeout, headers) ==
    [to |-> "portal", what |-> what, timeout |-> timeout,
     headers |-> headers]

\* the GET the run has sent when it is suspended at p
NextRequest(p) ==
    CASE p = "disclaimer" -> <<Req("GET disclaimer", NoTimeout, NoHeaders)>>
      [] p = "stage1"     -> <<Req("GET stage 1", HtmlTimeout, Stage1Headers)>>
      [] p = "stage2"     -> <<Req("GET stage 2", HtmlTimeout, Stage2Headers)>>
      [] p = "stage3"     -> <<Req("GET stage 3", BinaryTimeout, Stage3Headers)>>
      [] OTHER            -> <<>>

\* new Upload({client, params}).done(): the body goes out as one PutObject
\* or, when it is larger than a part, as parts of which the library sends
\* several at a time; n is how many it has in flight
UploadRequests(n) ==
    [i \in 1..n |-> [to |-> "s3", what |-> "upload", timeout |-> NoTimeout]]

\* a slip: the next request is sent without the response being awaited
Resumed_NotAwaited(r, issued) == r \o issued

\* the run resumes from the await of the oldest request, which has settled,
\* and sends the requests issued before it is suspended again
Resumed(r, issued) == Tail(r) \o issued

\* An absolute URL: `${BASE_URL}/` followed by path when base, else path
NoUrl == [base |-> FALSE, path |-> <<>>]

\* no attribute: the page has no such element
NoSrc == <<>>
\* a view-files page in which cheerio finds no iframe and no anchor
NoView == [iframe |-> NoSrc, anchor |-> NoSrc]

\* the record of a call downloadFile(url, fname, k, total) (k = 0: no call
\* yet); view: the view-files page that arrived (NoView before it has);
\* debug: the page saved as debug-viewfiles-k.html or debug-viewpdf-k.html
NewDoc(k, paused, fname) ==
    [index |-> k, filename |-> fname, fetches |-> IF k = 0 THEN 0 ELSE 1,
     pausedBefore |-> paused, view |-> NoView, debug |-> "none",
     src |-> <<>>, stage1Url |-> NoUrl,
     ctype2 |-> "none", parsed2 |-> FALSE, finalUrl |-> NoUrl,
     diag |-> FALSE, resolved |-> FALSE, payload |-> <<>>,
     ctype |-> "undefined",
     uploads |-> 0, upload |-> "none", writes |-> 0, write |-> "none",
     result |-> "pending", error |-> "none", pauseAfter |-> FALSE]

NoSummary == [printed |-> FALSE, ok |-> 0, failed |-> 0, s3 |-> FALSE]
ZeroUpl == [completed |-> 0, threw |-> 0, bytes |-> 0]

Init ==
    /\ env \in [S3_ENABLED : EnvValues, KEEP_LOCAL_FILES : EnvValues]
    /\ hasBucket \in BOOLEAN
    /\ storageMode \in Modes
    /\ dirExists \in BOOLEAN
    /\ enabled = FALSE
    /\ keepLocalFiles = FALSE
    /\ stats = ZeroStats
    /\ pc = "import"
    /\ formAction = "none"
    /\ negStatus = "pending"
    /\ sent = <<>>
    /\ rows = <<>>
    /\ links = <<>>
    /\ idx = 0
    /\ successCount = 0
    /\ failCount = 0
    /\ started = <<>>
    /\ doc = NewDoc(0, FALSE, <<>>)
    /\ resolvedCount = 0
    /\ localFiles = {}
    /\ pauses = 0
    /\ summary = NoSummary
    /\ upl = ZeroUpl
    /\ inFlight = <<>>

\* import s3Uploader: the singleton is constructed when the module is
\* evaluated, which is after dotenv/config has filled process.env and before
\* the body of scrape.mjs runs; initialize() exits without a bucket
ImportUploader ==
    /\ pc = "import"
    /\ enabled' = UploaderEnabled(env)
    /\ keepLocalFiles' = UploaderKeepLocal(env)
    /\ stats' = ZeroStats
    /\ pc' = IF UploaderEnabled(env) /\ ~hasBucket THEN "exit" ELSE "main"
    /\ UNCHANGED <<env, hasBucket, storageMode, dirExists,
                   formAction, negStatus, sent, rows, links, idx,
                   successCount, failCount, started, doc, resolvedCount,
                   localFiles, pauses, summary, upl>>
    /\ UNCHANGED inFlight

\* lines 91-96: the folder is wanted
WantsFolder(keep, en) == keep \/ ~en

\* body of scrape.mjs up to the first await of acceptDisclaimerAndGetDocs
Startup ==
    /\ pc = "main"
    /\ env' = OverrideEnv(storageMode)
    /\ \E mkdirOk \in BOOLEAN :
         IF (storageMode = "s3" \/ storageMode = "both") /\ ~hasBucket
         THEN /\ pc' = "exit"
              /\ UNCHANGED <<dirExists, sent>>
         ELSE IF WantsFolder(keepLocalFiles, enabled) /\ ~dirExists
                 /\ ~mkdirOk
         THEN /\ pc' = "exit"
              /\ UNCHANGED <<dirExists, sent>>
         ELSE /\ dirExists' = (dirExists \/ WantsFolder(keepLocalFiles, enabled))
              /\ sent' = <<"GET disclaimer">>
              /\ pc' = "disclaimer"
    /\ UNCHANGED <<hasBucket, storageMode, enabled,
                   keepLocalFiles, stats, formAction, negStatus, rows,
                   links, idx, successCount, failCount, started, doc,
                   resolvedCount, localFiles, pauses, summary, upl>>
    /\ inFlight' = inFlight \o NextRequest(pc')

----------------------------------------------------------------------------
(* scrape.mjs: the listing (lines 453-486) *)

\* The href of an a[href*="ViewFiles.aspx"] element: whether it has a
\* docid= parameter, and the characters that follow "docid="
NoParam == [param |-> FALSE, value |-> <<>>]
Hrefs == {NoParam} \cup
         {[param |-> TRUE, value |-> v] :
            v \in {<<"7">>, <<"a">>, <<"8", "a">>}}

Digits == {"0", "1", "2", "3", "4", "5", "6", "7", "8", "9"}

\* the longest run of digits s starts with: what (\d+) captures
RECURSIVE DigitsPrefix(_)
DigitsPrefix(s) ==
    IF s = <<>> \/ Head(s) \notin Digits THEN <<>>
    ELSE <<Head(s)>> \o DigitsPrefix(Tail(s))

\* href.match(/docid=(\d+)/): the captured docid, <<>> when there is no match
DocidMatch(href) == IF href.param THEN DigitsPrefix(href.value) ELSE <<>>

\* the match is not null
HasDocid(href) == DocidMatch(href) # <<>>

\* A tr element: the view-files anchors it contains, in document order, and
\* the text of its second cell
SeqsUpTo(S, n) == UNION {[1..k -> S] : k \in 0..n}
Titles == {<<>>}
Rows == [anchors : SeqsUpTo(Hrefs, MaxLinksPerRow), title : Titles]
Listings == SeqsUpTo(Rows, MaxRows)
\* the listings of a full run: the loop reads the first anchor of a row only
BatchListings ==
    SeqsUpTo({r \in Rows : Len(r.anchors) <= 1}, MaxBatchRows)

\* link.attr('href'): the attribute of the first element of the selection
FirstHref(row) == row.anchors[1]

\* a slip: the reference is pushed without looking at docidMatch
RowStep_NoDocidCheck(acc, row) ==
    IF Len(row.anchors) > 0
    THEN Append(acc, [url |-> FirstHref(row), title |-> row.title,
                      docid |-> DocidMatch(FirstHref(row))])
    ELSE acc

\* the body of the callback of $files('tr').each: the links array after row
RowStep(acc, row) ==
    IF Len(row.anchors) > 0 /\ HasDocid(FirstHref(row))
    THEN Append(acc, [url |-> FirstHref(row), title |-> row.title,
                      docid |-> DocidMatch(FirstHref(row))])
    ELSE acc

RECURSIVE ExtractFrom(_, _, _)
ExtractFrom(rs, k, acc) ==
    IF k > Len(rs) THEN acc ELSE ExtractFrom(rs, k + 1, RowStep(acc, rs[k]))

ExtractLinks(rs) == ExtractFrom(rs, 1, <<>>)

----------------------------------------------------------------------------
(* scrape.mjs: getFilenameFromUrl (lines 323-348) *)

\* substring(0, 100) of line 335
TitleLimit == 100

\* characters matched by \s and stripped by trim()
Whitespace == {" ", "\t"}

\* the character class of line 333
InvalidChars == {"<", ">", ":", "\"", "/", "\\", "|", "?", "*"}

RECURSIVE TrimStart(_)
TrimStart(s) ==
    IF s # <<>> /\ Head(s) \in Whitespace THEN TrimStart(Tail(s)) ELSE s

RECURSIVE TrimEnd(_)
TrimEnd(s) ==
    IF s # <<>> /\ s[Len(s)] \in Whitespace
    THEN TrimEnd(SubSeq(s, 1, Len(s) - 1)) ELSE s

\* String.prototype.trim
Trim(s) == TrimEnd(TrimStart(s))

\* .replace(/[<>:"/\\|?*]/g, '_')
ReplaceInvalid(s) ==
    [i \in 1..Len(s) |-> IF s[i] \in InvalidChars THEN "_" ELSE s[i]]

\* .replace(/\s+/g, '_'): each maximal run of whitespace becomes one "_"
\* (the first character of a run is replaced, the others of it are dropped)
CollapseSpace(s) ==
    LET marked == [i \in 1..Len(s) |->
                     IF s[i] \notin Whitespace THEN s[i]
                     ELSE IF i > 1 /\ s[i - 1] \in Whitespace THEN "drop"
                     ELSE "_"]
        Kept(c) == c # "drop"
    IN SelectSeq(marked, Kept)

\* a slip: the cleaned title is not cut
CleanTitle_NoCut(docTitle) ==
    CollapseSpace(ReplaceInvalid(Trim(docTitle)))

\* a slip: the cut counts characters from 1, as substring(1, 100)
CleanTitle_FromOne(docTitle) ==
    LET c == CollapseSpace(ReplaceInvalid(Trim(docTitle)))
    IN SubSeq(c, 2, Min(TitleLimit, Len(c)))

\* lines 332-335: cleanTitle
CleanTitle(docTitle) ==
    Slice(CollapseSpace(ReplaceInvalid(Trim(docTitle))), TitleLimit)

Chars_document == <<"d", "o", "c", "u", "m", "e", "n", "t", "_">>
Chars_pdf == <<".", "p", "d", "f">>
Chars_djvu == <<".", "d", "j", "v", "u">>

\* `${timestamp}_${random}` of line 347: Date.now() has 13 digits,
\* Math.random().toString(36).substr(2, 9) has between 0 and 9 characters
Stamps ==
    {<<"1", "7", "6", "2", "4", "2", "1", "0", "0", "0", "0", "0", "0", "_",
       "i">>,
     <<"1", "7", "6", "2", "4", "2", "1", "0", "0", "0", "0", "0", "1", "_",
       "k", "2", "x", "9", "q", "0", "z", "z", "b">>}

\* getFilenameFromUrl(url, docTitle), stamp being what the clock and the
\* random generator give at line 345
getFilenameFromUrl(url, docTitle, stamp) ==
    IF HasDocid(url)
    THEN IF docTitle # <<>> /\ Trim(docTitle) # <<>>
         THEN DocidMatch(url) \o <<"_">> \o CleanTitle(docTitle) \o Chars_pdf
         ELSE Chars_document \o DocidMatch(url) \o Chars_pdf
    ELSE Chars_document \o stamp \o Chars_pdf

\* String.prototype.endsWith
EndsWith(s, p) ==
    Len(p) <= Len(s) /\ SubSeq(s, Len(s) - Len(p) + 1, Len(s)) = p

\* line 282: filename.replace(/\.djvu$/, '.pdf')
PdfFilename(filename) ==
    IF EndsWith(filename, Chars_djvu)
    THEN SubSeq(filename, 1, Len(filename) - Len(Chars_djvu)) \o Chars_pdf
    ELSE filename

----------------------------------------------------------------------------
(* scrape.mjs: downloadAllDocuments (lines 350-391) *)

\* a slip: a list of one reference is taken for an empty one
NoDocuments_OffByOne(ls) == Len(ls) <= 1

\* line 351
NoDocuments(ls) == Len(ls) = 0

\* a slip: the catch block leaves the loop
LoopAfterCatch_Break(i, n) == n

\* the value of i with which the for statement goes on after the catch
\* block, n being links.length
LoopAfterCatch(i, n) == i + 1

\* lines 378-390
PrintedSummary(sc, fc, en) ==
    [printed |-> TRUE, ok |-> sc, failed |-> fc, s3 |-> en]

Config == <<env, hasBucket, storageMode, dirExists, enabled,
            keepLocalFiles>>
Negotiation == <<formAction, negStatus, sent, rows, links>>

\* the loop condition: the next call of downloadFile, which issues the
\* stage-1 GET, or the summary
LoopNext ==
    /\ pc = "loop"
    /\ IF idx < Len(links)
       THEN /\ started' = [started EXCEPT ![idx + 1] = @ + 1]
            /\ \E stamp \in Stamps :
                 doc' = NewDoc(idx + 1, doc.pauseAfter,
                               getFilenameFromUrl(links[idx + 1].url,
                                                  links[idx + 1].title,
                                                  stamp))
            /\ pc' = "stage1"
            /\ summary' = summary
       ELSE /\ summary' = PrintedSummary(successCount, failCount, enabled)
            /\ pc' = "done"
            /\ UNCHANGED <<started, doc>>
    /\ UNCHANGED Config
    /\ UNCHANGED Negotiation
    /\ UNCHANGED <<idx, successCount, failCount, resolvedCount, stats,
                   localFiles, pauses, upl>>
    /\ inFlight' = inFlight \o NextRequest(pc')

\* a slip: after an error the call starts again from stage 1
Fail_Retry(d, err) ==
    /\ failCount' = failCount + 1
    /\ doc' = [d EXCEPT !.fetches = @ + 1, !.error = err]
    /\ idx' = idx
    /\ pc' = "stage1"
    /\ UNCHANGED <<successCount, pauses, started, summary>>

\* downloadFile threw with err, d being its record: the catch block
Fail(d, err) ==
    /\ failCount' = failCount + 1
    /\ doc' = [d EXCEPT !.result = "failed", !.error = err]
    /\ idx' = LoopAfterCatch(idx, Len(links))
    /\ pc' = "loop"
    /\ UNCHANGED <<successCount, pauses, started, summary>>

\* downloadFile returned: successCount++, then the delay is awaited
Succeed(d) ==
    /\ successCount' = successCount + 1
    /\ doc' = [d EXCEPT !.result = "ok"]
    /\ pc' = "delay"
    /\ UNCHANGED <<failCount, pauses, idx, started, summary>>

\* the timer of line 370 fired: the iteration ends
DelayElapsed ==
    /\ pc = "delay"
    /\ pauses' = pauses + 1
    /\ doc' = [doc EXCEPT !.pauseAfter = TRUE]
    /\ idx' = idx + 1
    /\ pc' = "loop"
    /\ UNCHANGED Config
    /\ UNCHANGED Negotiation
    /\ UNCHANGED <<successCount, failCount, started, resolvedCount, stats,
                   localFiles, summary, upl>>
    /\ UNCHANGED inFlight

----------------------------------------------------------------------------
(* scrape.mjs: acceptDisclaimerAndGetDocs (lines 393-504) *)

FormActions == {"missing", "copyright.aspx"}

Range(f) == {f[x] : x \in DOMAIN f}

\* `${BASE_URL}/${formAction}` of line 422
SubmitUrl(action) == [base |-> TRUE, path |-> action]

\* the hidden inputs the postback reads, in the order of line 435
TokenFields == <<"__VIEWSTATE", "__VIEWSTATEGENERATOR", "__EVENTVALIDATION">>

\* .val() of an input: Undefined when the page has no such input
Undefined == "undefined"
TokenValues(v) == {Undefined, "", v}

\* the hidden inputs of the disclaimer page, and of the pages the portal may
\* answer the agreement POST with
DisclaimerPage == [f \in Range(TokenFields) |-> "d"]
ConfirmPages == [Range(TokenFields) -> TokenValues("c")]

\* lines 402-412: formData
FormData(page) ==
    [i \in 1..Len(TokenFields) |-> <<TokenFields[i], page[TokenFields[i]]>>]
      \o << <<"chkAgree", "on">>, <<"btnAgree", "I Agree">> >>

\* if (val) of line 437
Truthy(v) == v # Undefined /\ v # ""

\* a slip: the tokens are read from $disclaimer
PostBackData_FromDisclaimer(disclaimer, confirm) ==
    LET fields == SelectSeq(TokenFields, LAMBDA f : Truthy(disclaimer[f]))
    IN [i \in 1..Len(fields) |-> <<fields[i], disclaimer[fields[i]]>>]
         \o << <<"__EVENTTARGET", "btnViewFiles">>, <<"__EVENTARGUMENT", "">> >>

\* lines 434-443: postBackData, disclaimer and confirm being the pages
\* loaded into $disclaimer and $confirm
PostBackData(disclaimer, confirm) ==
    LET fields == SelectSeq(TokenFields, LAMBDA f : Truthy(confirm[f]))
    IN [i \in 1..Len(fields) |-> <<fields[i], confirm[fields[i]]>>]
         \o << <<"__EVENTTARGET", "btnViewFiles">>, <<"__EVENTARGUMENT", "">> >>

\* client.post(url, body, ...): page is the page the body was made from
Post(what, url, body, page) ==
    Req(what, NoTimeout, FormHeaders)
      @@ [url |-> url, body |-> body, page |-> page]

\* a slip: the action attribute is not looked at
FormActionMissing_Never(a) == FALSE

\* line 416
FormActionMissing(a) == a = "missing"

\* an exception reached the catch block of line 501
NegAbort(status) ==
    /\ negStatus' = status
    /\ pc' = "done"

Batch == <<idx, successCount, failCount, started, doc, resolvedCount,
           stats, localFiles, pauses, summary, upl>>

\* the disclaimer GET settled: lines 399-427
DisclaimerResponse ==
    /\ pc = "disclaimer"
    /\ \/ /\ NegAbort("getFailed")
          /\ UNCHANGED <<formAction, sent>>
       \/ \E a \in FormActions :
            /\ formAction' = a
            /\ IF FormActionMissing(a)
               THEN /\ NegAbort("noAction")
                    /\ sent' = sent
               ELSE /\ sent' = Append(sent, "POST agree")
                    /\ pc' = "agree"
                    /\ negStatus' = negStatus
    /\ UNCHANGED Config
    /\ UNCHANGED Batch
    /\ UNCHANGED <<rows, links>>
    /\ inFlight' =
         Resumed(inFlight,
                 IF pc' = "agree"
                 THEN <<Post("POST agree", SubmitUrl(formAction'),
                             FormData(DisclaimerPage), DisclaimerPage)>>
                 ELSE <<>>)

\* the agreement POST settled: lines 429-451
AgreeResponse ==
    /\ pc = "agree"
    /\ \/ /\ NegAbort("agreeFailed")
          /\ sent' = sent
          /\ inFlight' = Resumed(inFlight, <<>>)
       \/ /\ sent' = Append(sent, "POST viewfiles")
          /\ pc' = "viewfiles"
          /\ negStatus' = negStatus
          /\ \E confirm \in ConfirmPages :
               inFlight' =
                 Resumed(inFlight,
                         <<Post("POST viewfiles", SubmitUrl(formAction),
                                PostBackData(DisclaimerPage, confirm),
                                confirm)>>)
    /\ UNCHANGED Config
    /\ UNCHANGED Batch
    /\ UNCHANGED <<formAction, rows, links>>

\* the second POST threw
ViewFilesError ==
    /\ pc = "viewfiles"
    /\ NegAbort("listFailed")
    /\ UNCHANGED Config
    /\ UNCHANGED Batch
    /\ UNCHANGED <<formAction, sent, rows, links>>
    /\ inFlight' = Resumed(inFlight, NextRequest(pc'))

\* the second POST returned the listing: lines 453-499 and downloadAllDocuments
\* up to its loop
ViewFilesResponse ==
    /\ pc = "viewfiles"
    /\ \E listing \in BatchListings, saveOk \in BOOLEAN :
         LET ls == ExtractLinks(listing)
         IN /\ links' = ls
            /\ started' = [i \in 1..Len(ls) |-> 0]
            /\ IF ~saveOk THEN NegAbort("saveFailed")
               ELSE /\ negStatus' = "listed"
                    /\ pc' = IF NoDocuments(ls) THEN "done" ELSE "loop"
    /\ UNCHANGED Config
    /\ UNCHANGED <<formAction, sent, rows>>
    /\ UNCHANGED <<idx, successCount, failCount, doc, resolvedCount, stats,
                   localFiles, pauses, summary, upl>>
    /\ inFlight' = Resumed(inFlight, NextRequest(pc'))

----------------------------------------------------------------------------
(* scrape.mjs: downloadFile (lines 98-321) *)

\* src/href attributes the portal may serve
SrcBackslash ==
    <<".", "\\", "f", "i", "l", "e", "s", "\\", "d", ".", "p", "d", "f">>
SrcSlash ==
    <<".", "/", "f", "i", "l", "e", "s", "/", "d", ".", "p", "d", "f", "#", "1">>
SrcAbsolute ==
    <<"h", "t", "t", "p", ":", "/", "/", "h", "/", "d", ".", "p", "d", "f">>
Srcs == {SrcBackslash, SrcSlash, SrcAbsolute}

\* What cheerio finds in the view-files page: the src of the first iframe
\* whose src contains .pdf, the href of the first anchor whose href contains
\* .pdf (NoSrc: there is none)
Stage1Pages == [iframe : Srcs \cup {NoSrc}, anchor : Srcs \cup {NoSrc}]
\* the pages of a full run: the portal shows the document in an iframe,
\* whose src it writes as .\files\<name>.pdf
BatchStage1Pages ==
    {page \in Stage1Pages : /\ page.iframe \in {SrcBackslash, NoSrc}
                            /\ page.anchor = NoSrc}

\* lines 117-154: where actualPdfUrl comes from
Stage1Find(page) ==
    IF page.iframe # NoSrc THEN "iframe"
    ELSE IF page.anchor # NoSrc THEN "anchor" ELSE "none"

\* s.replace(/^p/, '') for a literal p
StripPrefix(s, p) ==
    IF StartsWith(s, p) THEN SubSeq(s, Len(p) + 1, Len(s)) ELSE s

\* s.split('#')[0]
RECURSIVE BeforeHash(_)
BeforeHash(s) ==
    IF s = <<>> \/ Head(s) = "#" THEN <<>>
    ELSE <<Head(s)>> \o BeforeHash(Tail(s))

Chars_filesBackslash == <<".", "\\", "f", "i", "l", "e", "s", "\\">>
Chars_filesSlash == <<".", "/", "f", "i", "l", "e", "s", "/">>
Chars_http == <<"h", "t", "t", "p">>

\* lines 124-131 (and 143-150): the absolute URL made from the attribute
AbsoluteUrl(src) ==
    IF StartsWith(src, Chars_filesBackslash)
       \/ StartsWith(src, Chars_filesSlash)
    THEN [base |-> TRUE,
          path |-> StripPrefix(StripPrefix(src, <<".", "\\">>), <<".", "/">>)]
    ELSE IF ~StartsWith(src, Chars_http)
         THEN [base |-> TRUE, path |-> src]
         ELSE [base |-> FALSE, path |-> src]

\* a slip: the anchors are searched before the iframes
Stage1Src_AnchorFirst(page) ==
    IF page.anchor # NoSrc THEN page.anchor ELSE page.iframe

\* the attribute actualPdfUrl is made from
Stage1Src(page) == IF page.iframe # NoSrc THEN page.iframe ELSE page.anchor

\* a slip: line 164 is left out
Stage1Url_KeepFragment(page) == AbsoluteUrl(Stage1Src(page))

\* actualPdfUrl after line 164
Stage1Url(page) ==
    LET u == AbsoluteUrl(Stage1Src(page))
    IN [u EXCEPT !.path = BeforeHash(@)]

\* What the intermediate page holds: an iframe/embed/object, an anchor, an
\* inline script matching the pattern of line 223
Stage2Pages == [embed : BOOLEAN, anchor : BOOLEAN, script : BOOLEAN]

\* a slip: the body is parsed whatever the content type
IsHtmlType_Always(ctype) == TRUE

\* line 185
IsHtmlType(ctype) == ctype = "text/html"

\* lines 189-232: realPdfUrl is set
Stage2Find(page) == page.embed \/ page.anchor \/ page.script

\* the link the intermediate page holds
NestedSrc == <<".", "/", "g", ".", "p", "d", "f", "#", "2">>

\* s.replace(/^\.?[\/\\]/, '')
StripDotSlash(s) ==
    LET t == IF s # <<>> /\ Head(s) = "." THEN Tail(s) ELSE s
    IN IF t # <<>> /\ Head(t) \in {"/", "\\"} THEN Tail(t) ELSE s

\* lines 194-198 (and 210-214, 226-229) and 235: finalPdfUrl made from the
\* link of the intermediate page
Stage2Real(page) ==
    IF StartsWith(NestedSrc, Chars_http)
    THEN [base |-> FALSE, path |-> BeforeHash(NestedSrc)]
    ELSE [base |-> TRUE, path |-> BeforeHash(StripDotSlash(NestedSrc))]

\* lines 182-242: finalPdfUrl
FinalUrl(html, actualPdfUrl, page) ==
    IF html THEN Stage2Real(page) ELSE actualPdfUrl

\* line 267
FirstBytes(data) == Slice(data, 10)

\* a slip: the test of line 269 is left out
LooksHtml_Never(fb) == FALSE

\* line 269
LooksHtml(fb) == Includes(fb, DOCTYPE) \/ Includes(fb, HTMLTAG)

\* line 275
HasPdfHeader(fb) == StartsWith(fb, PDFSIG)

\* a slip: neither line 286 nor upload() tests the flag
UploadWanted_Always(en) == TRUE

\* line 286, with the guard of upload(): the client exists iff enabled
UploadWanted(en) == en

\* a slip: the test of s3Result is inverted
ShouldSaveLocally_Inverted(keep, en, s3Result) == keep \/ (~en \/ s3Result)

\* line 296
ShouldSaveLocally(keep, en, s3Result) == keep \/ (~en \/ ~s3Result)

\* fs.writeFileSync(path.join(downloadsFolder, pdfFilename), ...)
WriteResult(dir, diskOk) ==
    IF ~dir THEN "ENOENT" ELSE IF diskOk THEN "ok" ELSE "EIO"

\* a fetch of the current document threw (network error, timeout, status)
FetchError ==
    /\ pc \in {"stage1", "stage2", "stage3"}
    /\ Fail(doc, "net")
    /\ UNCHANGED Config
    /\ UNCHANGED Negotiation
    /\ UNCHANGED <<resolvedCount, stats, localFiles, upl>>
    /\ inFlight' = Resumed(inFlight, NextRequest(pc'))

\* lines 115-168 for the view-files page that arrived; debugOk: the write
\* of line 158 succeeds
Stage1Step(page, debugOk) ==
    IF Stage1Find(page) = "none"
    THEN Fail([doc EXCEPT !.view = page,
                          !.debug = IF debugOk THEN "viewfiles" ELSE "none"],
              IF debugOk THEN "NoPdfUrl" ELSE "fs")
    ELSE /\ doc' = [doc EXCEPT !.fetches = @ + 1,
                               !.view = page,
                               !.src = Stage1Src(page),
                               !.stage1Url = Stage1Url(page)]
         /\ pc' = "stage2"
         /\ UNCHANGED <<idx, successCount, failCount, pauses, started,
                        summary>>

\* the view-files page arrived
Stage1Response ==
    /\ pc = "stage1"
    /\ \E page \in BatchStage1Pages, debugOk \in BOOLEAN :
         Stage1Step(page, debugOk)
    /\ UNCHANGED Config
    /\ UNCHANGED Negotiation
    /\ UNCHANGED <<resolvedCount, stats, localFiles, upl>>
    /\ inFlight' = Resumed(inFlight, NextRequest(pc'))

\* the response to the stage-1 URL arrived: lines 179-258
Stage2Response ==
    /\ pc = "stage2"
    /\ \E ctype \in ContentTypes, page \in Stage2Pages, debugOk \in BOOLEAN :
         LET html == IsHtmlType(ctype)
             d == [doc EXCEPT !.ctype2 = ctype, !.parsed2 = html]
         IN
         IF html /\ ~Stage2Find(page)
         THEN Fail([d EXCEPT !.debug = IF debugOk THEN "viewpdf" ELSE "none"],
                   IF debugOk THEN "NoRealPdfUrl" ELSE "fs")
         ELSE /\ doc' = [d EXCEPT !.fetches = @ + 1,
                                  !.finalUrl =
                                      FinalUrl(html, doc.stage1Url, page)]
              /\ pc' = "stage3"
              /\ UNCHANGED <<idx, successCount, failCount, pauses, started,
                             summary>>
    /\ UNCHANGED Config
    /\ UNCHANGED Negotiation
    /\ UNCHANGED <<resolvedCount, stats, localFiles, upl>>
    /\ inFlight' = Resumed(inFlight, NextRequest(pc'))

\* a slip: the error of the local write is swallowed
SaveAndReturn_WriteUnchecked(d, s3Result) ==
    IF ShouldSaveLocally(keepLocalFiles, enabled, s3Result)
    THEN \E diskOk \in BOOLEAN :
           LET w == WriteResult(dirExists, diskOk)
               dw == [d EXCEPT !.writes = @ + 1, !.write = w]
           IN /\ localFiles' = IF w = "ok"
                                THEN localFiles \cup {PdfFilename(d.filename)}
                                ELSE localFiles
              /\ Succeed(dw)
    ELSE /\ localFiles' = localFiles
         /\ Succeed(d)

\* lines 295-311 and the return to the loop: d is the record so far,
\* s3Result is whether the upload returned a result
SaveAndReturn(d, s3Result) ==
    IF ShouldSaveLocally(keepLocalFiles, enabled, s3Result)
    THEN \E diskOk \in BOOLEAN :
           LET w == WriteResult(dirExists, diskOk)
               dw == [d EXCEPT !.writes = @ + 1, !.write = w]
           IN IF w = "ok"
              THEN /\ localFiles' = localFiles \cup
                         {PdfFilename(d.filename)}
                   /\ Succeed(dw)
              ELSE /\ localFiles' = localFiles
                   /\ Fail(dw, "fs")
    ELSE /\ localFiles' = localFiles
         /\ Succeed(d)

\* the binary response arrived: lines 260-293, and when no upload is made
\* the rest of downloadFile
Stage3Response ==
    /\ pc = "stage3"
    /\ \E data \in Payloads, ctype \in FinalContentTypes, debugOk \in BOOLEAN :
         LET fb == FirstBytes(data)
             d0 == [doc EXCEPT !.payload = data, !.ctype = ctype]
             d  == [d0 EXCEPT !.resolved = TRUE, !.diag = ~HasPdfHeader(fb)]
         IN IF LooksHtml(fb)
            THEN /\ Fail(d0, IF debugOk THEN "HtmlPayload" ELSE "fs")
                 /\ UNCHANGED <<localFiles, resolvedCount>>
            ELSE IF ~HasPdfHeader(fb) /\ ~debugOk
            THEN /\ Fail(d0, "fs")
                 /\ UNCHANGED <<localFiles, resolvedCount>>
            ELSE /\ resolvedCount' = resolvedCount + 1
                 /\ IF UploadWanted(enabled)
                    THEN /\ doc' = [d EXCEPT !.uploads = @ + 1]
                         /\ pc' = "upload"
                         /\ UNCHANGED <<idx, successCount, failCount, pauses,
                                        started, summary, localFiles>>
                    ELSE SaveAndReturn(d, FALSE)
    /\ UNCHANGED Config
    /\ UNCHANGED Negotiation
    /\ UNCHANGED <<stats, upl>>
    /\ \E parts \in 1..MaxParts :
         inFlight' = Resumed(inFlight, IF pc' = "upload"
                                       THEN UploadRequests(parts)
                                       ELSE NextRequest(pc'))

\* upload.done() settled: lines 82-94 of the uploader, then lines 289-311
UploadSettled ==
    /\ pc = "upload"
    /\ \E ok \in BOOLEAN :
         LET len == Len(doc.payload)
             d == [doc EXCEPT !.upload = IF ok THEN "ok" ELSE "failed"]
         IN /\ stats' = UploadStats(stats, ok, len)
            /\ upl' = IF ok
                      THEN [upl EXCEPT !.completed = @ + 1, !.bytes = @ + len]
                      ELSE [upl EXCEPT !.threw = @ + 1]
            /\ SaveAndReturn(d, ok)
    /\ UNCHANGED Config
    /\ UNCHANGED Negotiation
    /\ UNCHANGED resolvedCount
    /\ inFlight' = <<>>

Next ==
    \/ ImportUploader
    \/ Startup
    \/ DisclaimerResponse
    \/ AgreeResponse
    \/ ViewFilesError
    \/ ViewFilesResponse
    \/ LoopNext
    \/ FetchError
    \/ Stage1Response
    \/ Stage2Response
    \/ Stage3Response
    \/ UploadSettled
    \/ DelayElapsed

Spec == Init /\ [][Next]_vars

\* every await of a run settles: the document fetches carry a timeout, the
\* delay is a timer
FairSpec == Spec /\ WF_vars(Next)

\* The steps that do not wait for an answer that may never come: those of
\* the program itself, the timer of the delay, and the settling of a
\* request that has a timeout (by its response, its error or its timeout)
TimedNext ==
    \/ ImportUploader
    \/ Startup
    \/ LoopNext
    \/ FetchError
    \/ Stage1Response
    \/ Stage2Response
    \/ Stage3Response
    \/ DelayElapsed

\* the runs against a portal and an object store that may never answer
TimeoutSpec == Spec /\ WF_vars(TimedNext)

\* The listing parser on its own: the response of the second POST is drawn,
\* and the loop of lines 457-486 is applied to it
ParseInit ==
    /\ rows \in Listings
    /\ pc = "parse"
    /\ env = OverrideEnv("local")
    /\ hasBucket = FALSE
    /\ storageMode = "local"
    /\ dirExists = TRUE
    /\ enabled = FALSE
    /\ keepLocalFiles = TRUE
    /\ stats = ZeroStats
    /\ formAction = "copyright.aspx"
    /\ negStatus = "pending"
    /\ sent = <<"GET disclaimer", "POST agree", "POST viewfiles">>
    /\ links = <<>>
    /\ idx = 0
    /\ successCount = 0
    /\ failCount = 0
    /\ started = <<>>
    /\ doc = NewDoc(0, FALSE, <<>>)
    /\ resolvedCount = 0
    /\ localFiles = {}
    /\ pauses = 0
    /\ summary = NoSummary
    /\ upl = ZeroUpl
    /\ inFlight = <<>>

ParseListing ==
    /\ pc = "parse"
    /\ links' = ExtractLinks(rows)
    /\ pc' = "parsed"
    /\ UNCHANGED Config
    /\ UNCHANGED Batch
    /\ UNCHANGED <<formAction, negStatus, sent, rows>>
    /\ UNCHANGED inFlight

ParseNext == ParseListing

ParseSpec == ParseInit /\ [][ParseNext]_vars

\* Titles given to getFilenameFromUrl on its own: every string of at most
\* MaxTitleLen characters, alone and after TitleLimit - 1 letters
TitleChars == {"a", " ", ":", "_"}
ShortTitles == SeqsUpTo(TitleChars, MaxTitleLen)
Padding == [i \in 1..(TitleLimit - 1) |-> "a"]
NameTitles == ShortTitles \cup {Padding \o t : t \in ShortTitles}

\* getFilenameFromUrl on its own: one reference is drawn, and line 363 is
\* applied to it
NameInit ==
    /\ \E h \in Hrefs, t \in NameTitles :
         links = <<[url |-> h, title |-> t, docid |-> DocidMatch(h)]>>
    /\ pc = "name"
    /\ rows = <<>>
    /\ env = OverrideEnv("local")
    /\ hasBucket = FALSE
    /\ storageMode = "local"
    /\ dirExists = TRUE
    /\ enabled = FALSE
    /\ keepLocalFiles = TRUE
    /\ stats = ZeroStats
    /\ formAction = "copyright.aspx"
    /\ negStatus = "listed"
    /\ sent = <<"GET disclaimer", "POST agree", "POST viewfiles">>
    /\ idx = 0
    /\ successCount = 0
    /\ failCount = 0
    /\ started = <<0>>
    /\ doc = NewDoc(0, FALSE, <<>>)
    /\ resolvedCount = 0
    /\ localFiles = {}
    /\ pauses = 0
    /\ summary = NoSummary
    /\ upl = ZeroUpl
    /\ inFlight = <<>>

NameFile ==
    /\ pc = "name"
    /\ \E stamp \in Stamps :
         doc' = NewDoc(0, FALSE,
                       getFilenameFromUrl(links[1].url, links[1].title, stamp))
    /\ pc' = "named"
    /\ UNCHANGED Config
    /\ UNCHANGED Negotiation
    /\ UNCHANGED <<idx, successCount, failCount, started, resolvedCount,
                   stats, localFiles, pauses, summary, upl>>
    /\ UNCHANGED inFlight

NameNext == NameFile

NameSpec == NameInit /\ [][NameNext]_vars

\* The resolver on its own: downloadAllDocuments is given one reference,
\* and the view-files page may hold any of the link forms of Srcs
ResolveInit ==
    /\ \E h \in {x \in Hrefs : HasDocid(x)} :
         links = <<[url |-> h, title |-> <<>>, docid |-> DocidMatch(h)]>>
    /\ pc = "loop"
    /\ rows = <<>>
    /\ storageMode \in Modes
    /\ env = OverrideEnv(storageMode)
    /\ hasBucket = TRUE
    /\ dirExists = TRUE
    /\ enabled \in BOOLEAN
    /\ keepLocalFiles \in BOOLEAN
    /\ stats = ZeroStats
    /\ formAction = "copyright.aspx"
    /\ negStatus = "listed"
    /\ sent = <<"GET disclaimer", "POST agree", "POST viewfiles">>
    /\ idx = 0
    /\ successCount = 0
    /\ failCount = 0
    /\ started = <<0>>
    /\ doc = NewDoc(0, FALSE, <<>>)
    /\ resolvedCount = 0
    /\ localFiles = {}
    /\ pauses = 0
    /\ summary = NoSummary
    /\ upl = ZeroUpl
    /\ inFlight = <<>>

\* the view-files page arrived
ResolveStage1 ==
    /\ pc = "stage1"
    /\ \E page \in Stage1Pages, debugOk \in BOOLEAN :
         Stage1Step(page, debugOk)
    /\ UNCHANGED Config
    /\ UNCHANGED Negotiation
    /\ UNCHANGED <<resolvedCount, stats, localFiles, upl>>
    /\ inFlight' = Resumed(inFlight, NextRequest(pc'))

ResolveNext ==
    \/ LoopNext
    \/ FetchError
    \/ ResolveStage1
    \/ Stage2Response
    \/ Stage3Response
    \/ UploadSettled
    \/ DelayElapsed

ResolveSpec == ResolveInit /\ [][ResolveNext]_vars

----------------------------------------------------------------------------
(* Properties *)

TypeOK ==
    /\ pc \in {"import", "main", "exit", "disclaimer", "agree", "viewfiles",
               "loop", "stage1", "stage2", "stage3", "upload", "delay",
               "done", "parse", "parsed", "name", "named"}
    /\ idx \in 0..Len(links)

\* the latest call of downloadFile has returned or thrown
Ended == doc.index > 0 /\ doc.result # "pending"

DocFilename == PdfFilename(doc.filename)

\* C1 (as claimed): in s3 mode with every upload failing and no download
\* folder before the run (the run never removes the folder, so that there
\* is none now), every resolved document is written to the folder
\* by the fallback of downloadFile (a disk fault apart), and at the end of
\* the run stats.failed is the number of documents that reached the sink.
C1_Claim ==
    (storageMode = "s3" /\ enabled /\ ~keepLocalFiles /\ ~dirExists
       /\ upl.completed = 0)
    => /\ (Ended /\ doc.resolved /\ doc.write # "EIO")
            => (doc.result = "ok" /\ DocFilename \in localFiles)
       /\ summary.printed => stats.failed = resolvedCount

\* C2 (as claimed): once the run has started processing, the uploader is
\* enabled exactly when the mode is s3 or both and keeps local files exactly
\* when the mode is not s3; so mode local attempts no upload and modes s3
\* and both attempt one for every resolved document.
C2_Claim ==
    pc \notin {"import", "main", "exit", "parse", "parsed"}
    => /\ enabled = (storageMode \in {"s3", "both"})
       /\ keepLocalFiles = (storageMode # "s3")
       /\ storageMode = "local" => stats = ZeroStats /\ doc.uploads = 0
       /\ (storageMode # "local" /\ Ended /\ doc.resolved) => doc.uploads = 1

\* iterations of the loop that have begun
Begun == IF pc \in {"stage1", "stage2", "stage3", "upload", "delay"}
         THEN idx + 1 ELSE idx

\* C3: downloadAllDocuments calls downloadFile on every reference exactly
\* once and in list order (the references called so far are a prefix of the
\* list, each called once), whatever fails; every finished iteration is
\* counted once as success or failure, and the summary is printed with
\* successCount + failCount = links.length.
C3_EveryReferenceOnce ==
    /\ \A k \in 1..Len(started) : started[k] = IF k <= Begun THEN 1 ELSE 0
    /\ doc.index = Begun \/ (doc.index = idx /\ pc \in {"loop", "done"})
    /\ pc \in {"loop", "stage1", "stage2", "stage3", "upload"}
         => successCount + failCount = idx
    /\ pc = "delay" => successCount + failCount = idx + 1
    /\ summary.printed
         => /\ idx = Len(links)
            /\ summary.ok + summary.failed = Len(links)
            /\ summary.ok = successCount /\ summary.failed = failCount

C3_Witness ==
    /\ summary.printed
    /\ Len(links) >= 2
    /\ successCount >= 1
    /\ failCount >= 1
    /\ doc.write = "EIO"

\* C4 (as claimed): a call of downloadFile on any reference but the first is
\* preceded by a politeness delay that followed the end of the call before
\* it, and a batch of N documents has had at least N - 1 delays when its
\* summary is printed.
C4_Claim ==
    /\ doc.index > 1 => doc.pausedBefore
    /\ summary.printed => pauses >= Len(links) - 1

\* C5 (as claimed): in mode both every resolved document gets exactly one
\* upload attempt, which changes the statistics by one, and exactly one
\* local write, whatever the outcome of the upload.
C5_Claim ==
    (storageMode = "both" /\ Ended /\ doc.resolved)
    => /\ doc.uploads = 1
       /\ doc.upload \in {"ok", "failed"}
       /\ doc.writes = 1

LowerChar(c) ==
    CASE c = "D" -> "d" [] c = "O" -> "o" [] c = "C" -> "c" [] c = "T" -> "t"
      [] c = "Y" -> "y" [] c = "P" -> "p" [] c = "E" -> "e" [] c = "H" -> "h"
      [] c = "M" -> "m" [] c = "L" -> "l" [] c = "F" -> "f" [] c = "K" -> "k"
      [] OTHER -> c

Lower(s) == [k \in 1..Len(s) |-> LowerChar(s[k])]

\* the payload begins with an HTML doctype or an html tag, in any case
BeginsWithHtml(data) ==
    StartsWith(Lower(data), Lower(DOCTYPE)) \/ StartsWith(Lower(data), HTMLTAG)

\* C6 (as claimed): a stage-3 payload that begins with an HTML doctype or
\* tag makes downloadFile throw (the unexpected-HTML error, or the error of
\* its diagnostic write) before persistence, whatever type was declared.
C6_Claim ==
    (doc.index > 0 /\ BeginsWithHtml(doc.payload))
    => /\ doc.result = "failed"
       /\ doc.error \in {"HtmlPayload", "fs"}
       /\ ~doc.resolved

\* C7: stats.uploaded is the number of uploads that completed, stats.failed
\* the number that threw, stats.totalBytes the bytes of the completed ones;
\* a failed upload is rethrown, so that downloadFile sees no result and
\* writes the file locally.
C7_StatsMatchUploads ==
    /\ stats.uploaded = upl.completed
    /\ stats.failed = upl.threw
    /\ stats.totalBytes = upl.bytes
    /\ ~enabled => stats = ZeroStats
    /\ (Ended /\ doc.upload = "failed") => doc.writes = 1

C7_Witness ==
    /\ stats.uploaded >= 1
    /\ stats.failed >= 1
    /\ stats.totalBytes > 0
    /\ doc.upload = "failed"
    /\ Ended

CarriesNumericDocid(href) ==
    href.param /\ href.value # <<>> /\ Head(href.value) \in Digits

\* C9 (as claimed): one reference for each row that has some view-files
\* link with a numeric docid, none for other rows, each with a docid.
C9_Claim ==
    pc = "parsed"
    => /\ Len(links) =
            Cardinality({k \in 1..Len(rows) :
                           \E a \in 1..Len(rows[k].anchors) :
                              CarriesNumericDocid(rows[k].anchors[a])})
       /\ \A k \in 1..Len(links) : links[k].docid # <<>>

FirstLinkValid(row) ==
    Len(row.anchors) > 0 /\ CarriesNumericDocid(row.anchors[1])

ValidRows == SelectSeq(rows, FirstLinkValid)

\* C9 (amended): one reference for each tr element whose first view-files
\* link carries a numeric docid, in row order, and none for any other row;
\* every reference has a docid, which is the run of digits of that link.
C9_OneReferencePerValidRow ==
    pc = "parsed"
    => /\ Len(links) = Len(ValidRows)
       /\ \A k \in 1..Len(links) :
            /\ links[k].url = ValidRows[k].anchors[1]
            /\ links[k].docid # <<>>
            /\ links[k].docid = DigitsPrefix(links[k].url.value)
            /\ \A c \in 1..Len(links[k].docid) : links[k].docid[c] \in Digits

C9_Witness ==
    /\ pc = "parsed"
    /\ Len(rows) = MaxRows
    /\ Len(links) = MaxRows - 1
    /\ \E k \in 1..Len(rows) :
         Len(rows[k].anchors) > 0 /\ ~CarriesNumericDocid(rows[k].anchors[1])

NegFailed == negStatus \in {"getFailed", "noAction", "agreeFailed", "listFailed"}

\* C10: when the negotiation fails the run is over: no negotiation request
\* follows the failing step, downloadFile is never called, nothing is
\* uploaded or written to the download folder; the agreement POST is sent
\* only for a form that has an action.
C10_NegotiationFailureEndsRun ==
    /\ NegFailed
         => /\ pc = "done"
            /\ links = <<>>
            /\ doc.index = 0 /\ doc.fetches = 0
            /\ localFiles = {}
            /\ stats = ZeroStats /\ upl = ZeroUpl
            /\ ~summary.printed
    /\ negStatus \in {"getFailed", "noAction"} => sent = <<"GET disclaimer">>
    /\ negStatus = "agreeFailed" => sent = <<"GET disclaimer", "POST agree">>
    /\ negStatus = "noAction" => formAction = "missing"
    /\ "POST agree" \in Range(sent) => formAction = "copyright.aspx"

C10_Witness ==
    /\ negStatus = "noAction"
    /\ pc = "done"
    /\ sent = <<"GET disclaimer">>

\* the name without its extension
Stem(name) == SubSeq(name, 1, Len(name) - Len(Chars_pdf))

\* the reference given to getFilenameFromUrl on its own, and the name it got
Named == pc = "named"
NamedUrl == links[1].url
NamedTitle == links[1].title

\* C11 (as claimed): for every url and title the name returned by
\* getFilenameFromUrl ends in .pdf and has at most 100 characters before
\* that extension.
C11_Claim ==
    Named => /\ EndsWith(doc.filename, Chars_pdf)
             /\ Len(Stem(doc.filename)) <= TitleLimit

\* C11 (amended): the 100-character limit applies to the cleaned title, not
\* to the name: the name ends in .pdf, and before the extension it has at
\* most 100 characters after the "<docid>_" it begins with when the url
\* carries a docid (at most 100 characters in all when it carries none).
C11_TitlePartAtMostLimit ==
    Named =>
      /\ EndsWith(doc.filename, Chars_pdf)
      /\ Len(Stem(doc.filename)) <=
           (IF HasDocid(NamedUrl) THEN Len(DocidMatch(NamedUrl)) + 1 ELSE 0)
           + TitleLimit

\* a title longer than the limit was cut, and the name has the full length
C11_Witness ==
    /\ Named
    /\ HasDocid(NamedUrl)
    /\ Len(Trim(NamedTitle)) > TitleLimit
    /\ Len(Stem(doc.filename)) = Len(DocidMatch(NamedUrl)) + 1 + TitleLimit

\* C13: title cleaning is idempotent: cleaning the cleaned title gives the
\* cleaned title again, and for a url with a docid the name made from the
\* cleaned title is the name made from the title.
C13_CleaningIdempotent ==
    Named =>
      /\ CleanTitle(CleanTitle(NamedTitle)) = CleanTitle(NamedTitle)
      /\ HasDocid(NamedUrl) =>
           \A stamp \in Stamps :
             getFilenameFromUrl(NamedUrl, CleanTitle(NamedTitle), stamp)
               = doc.filename

\* a name was made from a title that cleaning changes in every way: it is
\* longer than the limit and holds whitespace and an invalid character
C13_Witness ==
    /\ Named
    /\ HasDocid(NamedUrl)
    /\ Len(NamedTitle) > TitleLimit
    /\ \E i \in DOMAIN NamedTitle : NamedTitle[i] \in Whitespace
    /\ \E i \in DOMAIN NamedTitle : NamedTitle[i] \in InvalidChars
    /\ CleanTitle(NamedTitle) # NamedTitle
    /\ doc.filename =
         DocidMatch(NamedUrl) \o <<"_">> \o CleanTitle(NamedTitle) \o Chars_pdf

\* downloadFile has computed actualPdfUrl and sent the stage-2 GET for it
Stage1Done == doc.index > 0 /\ doc.fetches >= 2

\* the attribute is .\files\<name>
BackslashForm(src) == StartsWith(src, Chars_filesBackslash)

\* C12 (as claimed): for an iframe src (or anchor href) of the form
\* .\files\<name>.pdf the absolute URL that downloadFile computes and
\* fetches is exactly <BASE_URL>/files/<name>.pdf, with forward slashes
\* only.
C12_Claim ==
    (Stage1Done /\ BackslashForm(doc.src)) =>
      /\ doc.stage1Url.base
      /\ doc.stage1Url.path =
           <<"f", "i", "l", "e", "s", "/">>
             \o SubSeq(doc.src, Len(Chars_filesBackslash) + 1, Len(doc.src))
      /\ \A i \in DOMAIN doc.stage1Url.path : doc.stage1Url.path[i] # "\\"

\* the references of the batch carry pairwise distinct docids
DistinctDocids ==
    \A i, j \in DOMAIN links : i # j => links[i].docid # links[j].docid

\* the batch is over and every call of downloadFile reached line 281
AllResolved ==
    summary.printed /\ Len(links) > 0 /\ resolvedCount = Len(links)

\* C14 (as claimed): in local mode a batch of N references with pairwise
\* distinct docids in which every document resolves (and no write to the
\* disk fails: after resolution nothing else can throw, so that failCount
\* counts the failed writes) ends with N distinct files in the local
\* directory and a summary of N successful and 0 failed.
C14_Claim ==
    (storageMode = "local" /\ AllResolved /\ DistinctDocids /\ failCount = 0)
    => /\ Cardinality(localFiles) = Len(links)
       /\ summary.ok = Len(links)
       /\ summary.failed = 0

\* the uploader is in the state mode s3 stands for
S3Only == storageMode = "s3" /\ enabled /\ ~keepLocalFiles

\* C15: in s3 mode (uploader enabled, local retention off) the persistence
\* step of a document whose upload succeeded writes nothing: the files of
\* the local directory, the directory itself and the number of writes of
\* the document are as they were before the upload settled.
C15_NoLocalWriteAfterUpload ==
    [][(pc = "upload" /\ S3Only /\ doc'.upload = "ok")
         => /\ localFiles' = localFiles
            /\ dirExists' = dirExists
            /\ doc'.writes = doc.writes
            /\ doc'.write = "none"
            /\ doc'.result = "ok"]_vars

\* a document was uploaded in s3 mode and downloadFile returned without a
\* write
C15_Witness ==
    /\ S3Only
    /\ Ended
    /\ doc.upload = "ok"
    /\ doc.writes = 0
    /\ doc.result = "ok"
    /\ localFiles = {}
    /\ stats.uploaded >= 1

\* the payload of the latest call arrived and is neither HTML (for the
\* test of line 269, and in any letter case) nor a PDF
NonStandardPayload ==
    /\ doc.payload # <<>>
    /\ ~LooksHtml(FirstBytes(doc.payload))
    /\ ~BeginsWithHtml(doc.payload)
    /\ ~HasPdfHeader(FirstBytes(doc.payload))

\* a write threw for a reason of the disk (not for a missing folder)
DiskFault == doc.error = "fs" /\ doc.write # "ENOENT"

\* the payload was stored: uploaded, or written to the local directory
Persisted ==
    \/ doc.upload = "ok"
    \/ doc.write = "ok" /\ DocFilename \in localFiles

\* C16 (as claimed): a stage-3 payload that is not HTML and does not start
\* with %PDF- does not fail the document (a disk fault apart): downloadFile
\* writes a diagnostic copy, persists the payload under the storage policy
\* of the run, and the document is counted as a success.
C16_Claim ==
    (Ended /\ NonStandardPayload /\ ~DiskFault)
    => /\ doc.diag
       /\ doc.resolved
       /\ Persisted
       /\ doc.result = "ok"

\* the stage-2 response of the latest call arrived
Stage2Answered == doc.index > 0 /\ doc.ctype2 # "none"

\* the content type it declared is an HTML one
DeclaredHtml == doc.ctype2 = "text/html"

\* C17: when the response to the stage-1 URL declares a content type that
\* is not HTML, or none, its body is not parsed and the URL fetched in
\* stage 3 is the stage-1 URL; the body is parsed for a nested link, and
\* the call fails for want of one, only when the type is HTML.
C17_NonHtmlKeepsStage1Url ==
    Stage2Answered =>
      /\ ~DeclaredHtml =>
           /\ ~doc.parsed2
           /\ doc.fetches = 3
           /\ doc.finalUrl = doc.stage1Url
      /\ doc.parsed2 => DeclaredHtml
      /\ doc.error = "NoRealPdfUrl" => DeclaredHtml
      /\ (DeclaredHtml /\ doc.fetches = 3) => doc.finalUrl # doc.stage1Url

\* a response without content type was taken for the document itself, and
\* the stage-1 URL was fetched again
C17_Witness ==
    /\ Stage2Answered
    /\ doc.ctype2 = "undefined"
    /\ ~doc.parsed2
    /\ doc.fetches = 3
    /\ doc.stage1Url # NoUrl
    /\ doc.finalUrl = doc.stage1Url
    /\ pc = "stage3"

\* the stage the latest call is suspended in (0: in none)
StageOf(p) ==
    IF p = "stage1" THEN 1 ELSE IF p = "stage2" THEN 2
    ELSE IF p = "stage3" THEN 3 ELSE 0

\* C18: the resolver goes through stage 1, stage 2, stage 3 in this order
\* and never back: a call is in stage k after exactly k fetches and has
\* made at most three; stage 1 is entered only from the loop, for a new
\* call, and stage k + 1 only from stage k; a call that failed is back in
\* the loop having made no further fetch, and a call that has ended never
\* fetches again.
C18_StagesInOrder ==
    [][/\ doc.fetches <= 3
       /\ doc'.fetches <= 3
       /\ StageOf(pc) > 0 => doc.fetches = StageOf(pc)
       /\ (StageOf(pc') = 1 /\ pc' # pc)
            => (pc = "loop" /\ doc'.index = idx + 1)
       /\ (StageOf(pc') > 1 /\ pc' # pc)
            => (StageOf(pc) = StageOf(pc') - 1 /\ doc'.index = doc.index)
       /\ (doc.result = "pending" /\ doc'.result = "failed")
            => (pc' = "loop" /\ doc'.fetches = doc.fetches)
       /\ (doc.result # "pending" /\ doc'.index = doc.index)
            => doc'.fetches = doc.fetches]_vars

\* one call failed in a stage, and a later call went through all three
C18_Witness ==
    /\ Ended
    /\ doc.result = "ok"
    /\ doc.fetches = 3
    /\ failCount = 1
    /\ doc.index = 2

RECURSIVE SumSeq(_)
SumSeq(q) == IF q = <<>> THEN 0 ELSE Head(q) + SumSeq(Tail(q))

\* the requests in flight that went to the portal, to the object store
PortalInFlight == SelectSeq(inFlight, LAMBDA r : r.to = "portal")
S3InFlight == SelectSeq(inFlight, LAMBDA r : r.to = "s3")

\* calls of downloadFile that have begun and neither returned nor thrown
InProgress == SumSeq(started) - (successCount + failCount)

ClaimedTimeout(r) ==
    IF r.what = "GET stage 3" THEN BinaryTimeout ELSE HtmlTimeout

\* the run is over
Terminated == pc \in {"done", "exit"}

\* C20 (as claimed): every HTML/metadata fetch (the disclaimer GET, both
\* negotiation POSTs, the stage-1 and stage-2 GETs) is sent with a timeout
\* of 30 s and every binary download with one of 60 s, so that, requests
\* with a timeout settling in the end, every run terminates even when the
\* portal never answers.
C20_Claim ==
    /\ [](\A i \in DOMAIN PortalInFlight :
            PortalInFlight[i].timeout = ClaimedTimeout(PortalInFlight[i]))
    /\ <>Terminated

\* ---------------------------------------------------------------------
\* The negotiation requests
\* ---------------------------------------------------------------------

\* the agreement POST, the view-files POST: the request the run awaits there
AgreePost == inFlight[1]
ViewFilesPost == inFlight[1]

\* the two fields the postback always ends with
PostBackEnd ==
    << <<"__EVENTTARGET", "btnViewFiles">>, <<"__EVENTARGUMENT", "">> >>

\* the three tokens of a page, as name/value pairs
TokensOf(page) ==
    [i \in 1..Len(TokenFields) |-> <<TokenFields[i], page[TokenFields[i]]>>]

\* the tokens of a page which are present with a non-empty value
UsableTokens(page) ==
    SelectSeq(TokensOf(page), LAMBDA t : t[2] # Undefined /\ t[2] # "")

\* C21 (as claimed): the view-files POST goes to the URL of the agreement
\* POST and its body has exactly five fields: the three tokens with the
\* values of the response to the agreement POST, then
\* __EVENTTARGET=btnViewFiles and an empty __EVENTARGUMENT.
C21_Claim ==
    /\ pc = "agree" => AgreePost.url = SubmitUrl(formAction)
    /\ pc = "viewfiles" =>
         /\ ViewFilesPost.url = SubmitUrl(formAction)
         /\ Len(ViewFilesPost.body) = 5
         /\ ViewFilesPost.body = TokensOf(ViewFilesPost.page) \o PostBackEnd

\* C21 (amended): the view-files POST goes to the URL of the agreement POST
\* and its body is the tokens the response to the agreement POST holds with
\* a non-empty value, unmodified and in the order __VIEWSTATE,
\* __VIEWSTATEGENERATOR, __EVENTVALIDATION, followed by
\* __EVENTTARGET=btnViewFiles and an empty __EVENTARGUMENT; it has five
\* fields exactly when that response holds all three tokens.
C21_PostBackFromConfirmPage ==
    /\ pc = "agree" => AgreePost.url = SubmitUrl(formAction)
    /\ pc = "viewfiles" =>
         /\ ViewFilesPost.url = SubmitUrl(formAction)
         /\ ViewFilesPost.body = UsableTokens(ViewFilesPost.page) \o PostBackEnd
         /\ Len(ViewFilesPost.body) = 5
              <=> \A f \in Range(TokenFields) :
                    ViewFilesPost.page[f] \notin {Undefined, ""}

\* the view-files POST has been sent with five fields, the tokens differing
\* from those of the disclaimer page
C21_Witness ==
    /\ pc = "viewfiles"
    /\ sent = <<"GET disclaimer", "POST agree", "POST viewfiles">>
    /\ Len(ViewFilesPost.body) = 5
    /\ \A i \in 1..3 :
         /\ ViewFilesPost.body[i][2] = "c"
         /\ ViewFilesPost.body[i][2] # DisclaimerPage[TokenFields[i]]

\* ---------------------------------------------------------------------
\* The URLs of stage 2 and stage 3
\* ---------------------------------------------------------------------

\* the URL holds a fragment identifier
HasFragment(u) == "#" \in Range(u.path)

\* the stage-2 GET, the stage-3 GET of the latest document has been sent
Stage2Sent == doc.index > 0 /\ doc.fetches >= 2
Stage3Sent == doc.index > 0 /\ doc.fetches >= 3

\* C22: no URL downloadFile fetches in stage 2 or stage 3 holds a fragment
\* identifier: everything from the first # of the extracted link on is
\* removed before the URL is requested.
C22_NoFragmentFetched ==
    /\ Stage2Sent => doc.stage1Url # NoUrl /\ ~HasFragment(doc.stage1Url)
    /\ Stage3Sent => doc.finalUrl # NoUrl /\ ~HasFragment(doc.finalUrl)

\* stage 3 is being fetched for a document whose view-files link held a
\* fragment, the link of the intermediate page holding one too
C22_Witness ==
    /\ pc = "stage3"
    /\ Stage3Sent
    /\ "#" \in Range(doc.src)
    /\ doc.parsed2
    /\ "#" \in Range(NestedSrc)
    /\ doc.finalUrl.path # <<>>

\* ---------------------------------------------------------------------
\* Stage 1
\* ---------------------------------------------------------------------

\* the view-files page of the latest call arrived and was searched
Stage1Answered ==
    /\ doc.index > 0
    /\ \/ doc.fetches >= 2
       \/ doc.fetches = 1 /\ doc.error \in {"NoPdfUrl", "fs"}

\* it held no iframe and no anchor with a PDF link
NeitherFound == Stage1Answered /\ doc.view = NoView

\* the link that was followed is that of the first matching iframe, and of
\* the first matching anchor only when no iframe matches
IframePreferred ==
    /\ doc.view.iframe # NoSrc => doc.src = doc.view.iframe
    /\ (doc.view.iframe = NoSrc /\ doc.view.anchor # NoSrc)
         => doc.src = doc.view.anchor

\* C23 (as claimed): stage 1 follows the first iframe whose src holds .pdf
\* and an anchor only when no iframe matches; when there is neither, the
\* view-files page is saved as a debug file and the call then fails with
\* the no-PDF-URL error, no stage-2 or stage-3 fetch having been sent.
C23_Claim ==
    Stage1Answered =>
      /\ IframePreferred
      /\ doc.view = NoView =>
           /\ doc.debug = "viewfiles"
           /\ doc.result = "failed"
           /\ doc.error = "NoPdfUrl"
           /\ doc.fetches = 1

\* C23 (amended): stage 1 follows the first iframe whose src holds .pdf and
\* an anchor only when no iframe matches; when there is neither, the call
\* fails without a stage-2 or stage-3 fetch: with the no-PDF-URL error once
\* the view-files page has been saved as a debug file, and with the error
\* of that write, nothing being saved, when the write fails.
C23_IframeThenAnchorElseFail ==
    Stage1Answered =>
      /\ IframePreferred
      /\ doc.view = NoView =>
           /\ doc.result = "failed"
           /\ doc.fetches = 1
           /\ \/ doc.debug = "viewfiles" /\ doc.error = "NoPdfUrl"
              \/ doc.debug = "none" /\ doc.error = "fs"
      /\ doc.view # NoView => doc.debug # "viewfiles" /\ doc.error # "NoPdfUrl"

\* a page without a link was saved and the call failed for want of a URL
C23_Witness ==
    /\ NeitherFound
    /\ doc.debug = "viewfiles"
    /\ doc.error = "NoPdfUrl"
    /\ doc.fetches = 1
    /\ failCount = 1
    /\ pc = "loop"

\* ---------------------------------------------------------------------
\* The headers of the requests
\* ---------------------------------------------------------------------

\* the request is sent with a browser User-Agent and an Accept-Language
BrowserLike(r) ==
    /\ "User-Agent" \in DOMAIN r.headers
    /\ r.headers["User-Agent"] = BrowserUA
    /\ "Accept-Language" \in DOMAIN r.headers

\* C24 (as claimed): every HTTP request the run sends to the portal, the
\* negotiation requests included, carries a browser User-Agent header and
\* an Accept-Language header.
C24_Claim == \A i \in DOMAIN PortalInFlight : BrowserLike(PortalInFlight[i])

\* ---------------------------------------------------------------------
\* Persistence and the counters
\* ---------------------------------------------------------------------

\* the bytes of d were stored in a sink, files being the local directory
StoredIn(d, files) ==
    \/ d.upload = "ok"
    \/ d.write = "ok" /\ PdfFilename(d.filename) \in files

\* the upload of d failed and so did the local write that followed
BothSinksFailed(d) == d.upload = "failed" /\ d.write \in {"ENOENT", "EIO"}

\* C25: a document is counted in successCount only if its bytes were stored
\* in at least one sink (its upload completed or its local write did); a
\* document whose upload failed and whose local write failed too is counted
\* in failCount.
C25_SuccessMeansStored ==
    [][/\ successCount' # successCount =>
            /\ successCount' = successCount + 1
            /\ doc'.result = "ok"
            /\ StoredIn(doc', localFiles')
       /\ (doc.result = "pending" /\ BothSinksFailed(doc')) =>
            /\ doc'.result = "failed"
            /\ failCount' = failCount + 1
            /\ successCount' = successCount
       /\ doc'.result = "ok" => ~BothSinksFailed(doc')]_vars

\* a first document was stored by the local write that followed its failed
\* upload
C25_Witness ==
    /\ doc.index = 1
    /\ doc.upload = "failed"
    /\ doc.write = "ok"
    /\ doc.result = "ok"
    /\ successCount = 1
    /\ failCount = 0

\* the errors of a resolution that failed: of a fetch, of a page without a
\* link, of an HTML payload, of the write of a debug file
ResolutionErrors == {"net", "NoPdfUrl", "NoRealPdfUrl", "HtmlPayload", "fs"}

\* the payload of d begins with <!DOCTYPE or <html
HtmlPayloadArrived(d) == d.payload \in {PayloadDoctype, PayloadHtmlTag}

\* C26: persistence happens only after resolution has fully succeeded: for
\* a document whose resolution fails at any stage (fetch error, no link in
\* stage 1 or 2, HTML payload in stage 3) no upload is attempted, the sink
\* statistics are unchanged and no file is written to the download
\* directory of the application.
C26_PersistenceAfterResolution ==
    [][/\ (doc'.uploads > 0 \/ doc'.writes > 0) => doc'.resolved
       /\ (stats' # stats \/ upl' # upl \/ localFiles' # localFiles)
            => doc'.resolved
       /\ (doc.result = "pending" /\ doc'.result = "failed" /\ ~doc'.resolved)
            => /\ doc'.error \in ResolutionErrors
               /\ doc'.uploads = 0 /\ doc'.upload = "none"
               /\ doc'.writes = 0 /\ doc'.write = "none"
               /\ stats' = stats
               /\ localFiles' = localFiles
       /\ HtmlPayloadArrived(doc') =>
            /\ ~doc'.resolved
            /\ doc'.result = "failed"
            /\ doc'.error \in {"HtmlPayload", "fs"}]_vars

\* with the uploader enabled a document failed in stage 3 for its HTML
\* payload: nothing was uploaded or written
C26_Witness ==
    /\ enabled
    /\ doc.index = 1
    /\ doc.result = "failed"
    /\ doc.error = "HtmlPayload"
    /\ doc.fetches = 3
    /\ HtmlPayloadArrived(doc)
    /\ doc.uploads = 0
    /\ stats = ZeroStats
    /\ localFiles = {}

\* the uploads attempted so far: each ends in uploaded or in failed
Attempts == stats.uploaded + stats.failed

\* the calls of downloadFile made so far
DocumentsStarted == SumSeq(started)

\* C27: at most one upload is attempted per document: stats.uploaded +
\* stats.failed never exceeds the number of documents started so far; with
\* the uploader disabled no upload is made and the three counters stay at 0
\* for the whole run.
C27_AtMostOneUploadPerDocument ==
    /\ doc.uploads <= 1
    /\ Attempts + (IF pc = "upload" THEN 1 ELSE 0) <= DocumentsStarted
    /\ Attempts = upl.completed + upl.threw
    /\ ~enabled =>
         /\ stats = ZeroStats
         /\ doc.uploads = 0
         /\ doc.upload = "none"
         /\ pc # "upload"

\* two documents were started and each had its upload attempt, one of
\* which failed
C27_Witness ==
    /\ enabled
    /\ DocumentsStarted = 2
    /\ Attempts = 2
    /\ stats.failed = 1
    /\ doc.index = 2
    /\ doc.uploads = 1

====
